---- MODULE Spec2Model ----
(***************************************************************************)
(* Model of manifest-feature-gen (src/src/manifest.rs, src/src/lib.rs).    *)
(*                                                                         *)
(* Strings are sequences of one-character strings, so that the parsing in  *)
(* DependencyHelper::add_dependency (contains, split, ends_with, slicing)  *)
(* and the rendering in Dependency::into_string are computed, character by *)
(* character, as the code computes them.                                   *)
(*                                                                         *)
(* The manifest file is modelled at the level toml_edit presents it to the *)
(* code: whether a `features` item exists and is a table, and for every    *)
(* entry of that table, in document order, its key, whether its value is   *)
(* an array, the array's items and the value's trailing decor (suffix).    *)
(* Files are readable and syntactically valid TOML; reading and writing    *)
(* do not fail.                                                            *)
(***************************************************************************)
EXTENDS Integers, Sequences, FiniteSets, TLC

VARIABLES
    \* ---- one DependencyHelper pair (HelperSpec) ----
    helpers,            \* helper id -> HashSet<Dependency> (field .1)
    hcalls,             \* number of helper calls made so far
    hlast,              \* the last helper call: its arguments, result, set before
    \* ---- the manifest life cycle ----
    file,               \* the manifest on disk
    env,                \* the process environment: variable name -> value
    pc,                 \* position of the build script
    document,           \* Manifest.document (its features item)
    original_features,  \* Manifest.original_features
    prevent_build_when_changed, \* Manifest.prevent_build_when_changed
    last,               \* the last manifest operation: arguments and result
    writes,             \* number of std::fs::write calls of this run
    hist,               \* the add calls of the first run, in order
    adds,               \* number of add calls made in the current run
    run                 \* number of the current run of the build script

hvars == <<helpers, hcalls, hlast>>
mvars == <<file, env, pc, document, original_features,
           prevent_build_when_changed, last, writes, hist, adds, run>>
vars == <<helpers, hcalls, hlast, file, env, pc, document,
          original_features, prevent_build_when_changed, last, writes, hist, adds, run>>

(***************************************************************************)
(* Bounds of the model.                                                    *)
(***************************************************************************)
MaxCalls == 2       \* helper calls per behaviour of HelperSpec

(***************************************************************************)
(* Characters and strings.                                                 *)
(***************************************************************************)
\* The byte value of a character: String's Ord (used by Vec<String>::sort)
\* compares byte-wise.
Code(c) ==
    CASE c = "-" -> 45
      [] c = "/" -> 47
      [] c = "?" -> 63
      [] c = "A" -> 65
      [] c = "F" -> 70
      [] c = "X" -> 88
      [] c = "_" -> 95
      [] c = "a" -> 97
      [] c = "f" -> 102
      [] c = "x" -> 120

\* str::contains(char)
Contains(s, c) == \E i \in 1..Len(s) : s[i] = c

\* str::ends_with(char)
EndsWith(s, c) == Len(s) > 0 /\ s[Len(s)] = c

\* index of the first occurrence of c in s (s contains c)
FirstIndex(s, c) == CHOOSE i \in 1..Len(s) : s[i] = c /\ \A j \in 1..(i-1) : s[j] # c

\* str::split(char) collected: "a/" gives <<"a", "">>, "/" gives <<"", "">>
RECURSIVE Split(_, _)
Split(s, c) ==
    IF ~Contains(s, c)
    THEN <<s>>
    ELSE LET i == FirstIndex(s, c)
         IN  <<SubSeq(s, 1, i - 1)>> \o Split(SubSeq(s, i + 1, Len(s)), c)

\* String's Ord: lexicographic on bytes, a proper prefix is smaller
RECURSIVE StrLess(_, _)
StrLess(s, t) ==
    IF Len(t) = 0 THEN FALSE
    ELSE IF Len(s) = 0 THEN TRUE
    ELSE IF Code(s[1]) # Code(t[1]) THEN Code(s[1]) < Code(t[1])
    ELSE StrLess(Tail(s), Tail(t))

(***************************************************************************)
(* enum Dependency and Dependency::into_string                             *)
(***************************************************************************)
Simple(feature) == [variant |-> "Simple", crate_name |-> <<>>, feature |-> feature]
CrateFeature(crate_name, feature) ==
    [variant |-> "CrateFeature", crate_name |-> crate_name, feature |-> feature]
OptionalCrateFeature(crate_name, feature) ==
    [variant |-> "OptionalCrateFeature", crate_name |-> crate_name, feature |-> feature]

into_string(d) ==
    CASE d.variant = "Simple" -> d.feature
      [] d.variant = "CrateFeature" -> d.crate_name \o <<"/">> \o d.feature
      [] d.variant = "OptionalCrateFeature" -> d.crate_name \o <<"?", "/">> \o d.feature

(***************************************************************************)
(* DependencyHelper: a call takes the edge set (field .1) and returns the  *)
(* Result ("Ok", "Conflict", "InvalidDependencyFormat", or "panic" when    *)
(* the call unwinds) with the edge set afterwards.                         *)
(***************************************************************************)
\* the routine storing the variant it probes for (the opposite of the request)
add_crate_feature_dependency_inverted(edges, crate_name, feature_name, optional) ==
    LET conflict == IF optional
                    THEN CrateFeature(crate_name, feature_name)
                    ELSE OptionalCrateFeature(crate_name, feature_name)
    IN  IF conflict \in edges
        THEN [res |-> "Conflict", edges |-> edges]
        ELSE [res |-> "Ok", edges |-> edges \cup {conflict}]

\* the routine without the probe
add_crate_feature_dependency_unchecked(edges, crate_name, feature_name, optional) ==
    [res |-> "Ok",
     edges |-> edges \cup {IF optional
                           THEN OptionalCrateFeature(crate_name, feature_name)
                           ELSE CrateFeature(crate_name, feature_name)}]

\* the routine inserting before it reports the conflict
add_crate_feature_dependency_inserting_on_conflict(edges, crate_name, feature_name, optional) ==
    LET conflict == IF optional
                    THEN CrateFeature(crate_name, feature_name)
                    ELSE OptionalCrateFeature(crate_name, feature_name)
        inserted == IF optional
                    THEN OptionalCrateFeature(crate_name, feature_name)
                    ELSE CrateFeature(crate_name, feature_name)
    IN  [res |-> IF conflict \in edges THEN "Conflict" ELSE "Ok",
         edges |-> edges \cup {inserted}]

\* the routine letting the later request replace the earlier one
add_crate_feature_dependency_last_wins(edges, crate_name, feature_name, optional) ==
    LET conflict == IF optional
                    THEN CrateFeature(crate_name, feature_name)
                    ELSE OptionalCrateFeature(crate_name, feature_name)
        inserted == IF optional
                    THEN OptionalCrateFeature(crate_name, feature_name)
                    ELSE CrateFeature(crate_name, feature_name)
    IN  [res |-> "Ok", edges |-> (edges \ {conflict}) \cup {inserted}]

add_crate_feature_dependency(edges, crate_name, feature_name, optional) ==
    LET conflict == IF optional
                    THEN CrateFeature(crate_name, feature_name)
                    ELSE OptionalCrateFeature(crate_name, feature_name)
        inserted == IF conflict.variant = "OptionalCrateFeature"
                    THEN CrateFeature(conflict.crate_name, conflict.feature)
                    ELSE OptionalCrateFeature(conflict.crate_name, conflict.feature)
    IN  IF conflict \in edges
        THEN [res |-> "Conflict", edges |-> edges]
        ELSE [res |-> "Ok", edges |-> edges \cup {inserted}]

\* self.0 is the helper's own feature name
propagate_to_crate(edges, self0, crate_name, optional) ==
    add_crate_feature_dependency(edges, crate_name, self0, optional)

\* &crate_name[0..(crate_name.len() - 2)]: with len < 2 the subtraction
\* overflows usize (a panic with overflow checks; without them the end wraps
\* to a value above len and the slice's range check panics): "panic" in
\* every build.
StripOptional(crate_name) ==
    IF Len(crate_name) < 2
    THEN [panic |-> TRUE, s |-> <<>>]
    ELSE [panic |-> FALSE, s |-> SubSeq(crate_name, 1, Len(crate_name) - 2)]

\* add_dependency without the check for a third segment
add_dependency_ignoring_third_segment(edges, dependency_name) ==
    IF Contains(dependency_name, "/")
    THEN LET splitted == Split(dependency_name, "/")
         IN  IF EndsWith(splitted[1], "?")
             THEN LET stripped == StripOptional(splitted[1])
                  IN  IF stripped.panic
                      THEN [res |-> "panic", edges |-> edges]
                      ELSE add_crate_feature_dependency(edges, stripped.s, splitted[2], TRUE)
             ELSE add_crate_feature_dependency(edges, splitted[1], splitted[2], FALSE)
    ELSE [res |-> "Ok", edges |-> edges \cup {Simple(dependency_name)}]

add_dependency(edges, dependency_name) ==
    IF Contains(dependency_name, "/")
    THEN LET splitted == Split(dependency_name, "/")
         IN  IF Len(splitted) < 2
             THEN [res |-> "InvalidDependencyFormat", edges |-> edges]
             ELSE IF Len(splitted) > 2
             THEN [res |-> "InvalidDependencyFormat", edges |-> edges]
             ELSE IF EndsWith(splitted[1], "?")
             THEN LET stripped == StripOptional(splitted[1])
                  IN  IF stripped.panic
                      THEN [res |-> "panic", edges |-> edges]
                      ELSE add_crate_feature_dependency(edges, stripped.s, splitted[2], TRUE)
             ELSE add_crate_feature_dependency(edges, splitted[1], splitted[2], FALSE)
    ELSE [res |-> "Ok", edges |-> edges \cup {Simple(dependency_name)}]

\* propagator.1.into_iter().map(Dependency::into_string).collect::<Vec<_>>()
\* followed by sort(): one string per edge, in ascending order. Insert(v, s)
\* puts s after the strings that are not greater.
RECURSIVE InsertSorted(_, _)
InsertSorted(v, s) ==
    IF Len(v) = 0 THEN <<s>>
    ELSE IF StrLess(s, v[1]) THEN <<s>> \o v
    ELSE <<v[1]>> \o InsertSorted(Tail(v), s)

RECURSIVE RenderSorted(_)
RenderSorted(edges) ==
    IF edges = {} THEN <<>>
    ELSE LET d == CHOOSE e \in edges : TRUE
         IN  InsertSorted(RenderSorted(edges \ {d}), into_string(d))

(***************************************************************************)
(* HelperSpec: two DependencyHelpers, created for the features "a" and     *)
(* "f", receive up to MaxCalls add_dependency and propagate_to_crate calls. *)
(***************************************************************************)
\* Segments of the dependency strings handed to add_dependency: empty, the
\* optional marker alone, plain names, and names ending in the marker.
HelperSegments ==
    {<<>>, <<"?">>, <<"a">>, <<"f">>, <<"a", "?">>, <<"a", "a", "?">>}

\* Every string of one or two segments joined by '/', and strings of three
\* segments (two '/').
HelperInputs ==
    {s : s \in HelperSegments}
    \cup {s \o <<"/">> \o t : s \in HelperSegments, t \in HelperSegments}
    \cup {s \o <<"/">> \o t \o <<"/">> \o u :
            s \in {<<>>, <<"a">>, <<"a", "?">>}, t \in {<<>>, <<"a">>, <<"a", "?">>},
            u \in {<<>>, <<"f">>}}

\* the helpers' own feature names (DependencyHelper.0)
HelperIds == {<<"a">>, <<"f">>}

\* crate names handed to propagate_to_crate
PropagateCrates == {<<"a">>, <<"a", "?">>}

NoHelperCall ==
    [op |-> "none", helper |-> <<>>, arg |-> <<>>, optional |-> FALSE,
     res |-> "Ok", before |-> {}]

HelperIdle ==
    /\ helpers = [h \in HelperIds |-> {}]
    /\ hcalls = 0
    /\ hlast = NoHelperCall

ManifestIdle ==
    /\ file = [features |-> "absent", entries |-> <<>>]
    /\ env = <<>>
    /\ pc = "idle"
    /\ document = [features |-> "absent", entries |-> <<>>]
    /\ original_features = <<>>
    /\ prevent_build_when_changed = FALSE
    /\ last = [op |-> "none", descs |-> <<>>]
    /\ writes = 0
    /\ hist = [calls |-> <<>>, first |-> "none"]
    /\ adds = 0
    /\ run = 0

HelperInit == HelperIdle /\ ManifestIdle

HelperAddDependency ==
    /\ hcalls < MaxCalls
    /\ hlast.res # "panic"
    /\ \E h \in HelperIds, s \in HelperInputs :
         LET r == add_dependency(helpers[h], s)
         IN  /\ helpers' = [helpers EXCEPT ![h] = r.edges]
             /\ hlast' = [op |-> "add_dependency", helper |-> h, arg |-> s,
                          optional |-> FALSE, res |-> r.res, before |-> helpers[h]]
    /\ hcalls' = hcalls + 1
    /\ UNCHANGED mvars

HelperPropagateToCrate ==
    /\ hcalls < MaxCalls
    /\ hlast.res # "panic"
    /\ \E h \in HelperIds, c \in PropagateCrates, o \in BOOLEAN :
         LET r == propagate_to_crate(helpers[h], h, c, o)
         IN  /\ helpers' = [helpers EXCEPT ![h] = r.edges]
             /\ hlast' = [op |-> "propagate_to_crate", helper |-> h, arg |-> c,
                          optional |-> o, res |-> r.res, before |-> helpers[h]]
    /\ hcalls' = hcalls + 1
    /\ UNCHANGED mvars

HelperNext == HelperAddDependency \/ HelperPropagateToCrate

HelperSpec == HelperInit /\ [][HelperNext]_vars

(***************************************************************************)
(* The manifest: toml_edit's view of the `features` item.                  *)
(*   features : "absent" | "not_table" | "table"                           *)
(*   entries  : the table's key/value pairs in document order, each        *)
(*              [name, is_array, items, suffix]; an item is [is_str, s];   *)
(*              suffix is the value's trailing decor.                      *)
(***************************************************************************)
\* " # auto-generated by " followed by CARGO_CRATE_NAME; the words after the
\* '#' and the blank are kept as one token, blanks are characters.
AUTO_GENERATE_COMMENT == <<" ", "#", " ", "auto-generated by manifest_feature_gen">>

IsWhitespace(c) == c \in {" ", "\t", "\n"}

\* str::trim
RECURSIVE TrimStart(_)
TrimStart(s) ==
    IF Len(s) > 0 /\ IsWhitespace(s[1]) THEN TrimStart(Tail(s)) ELSE s
RECURSIVE TrimEnd(_)
TrimEnd(s) ==
    IF Len(s) > 0 /\ IsWhitespace(s[Len(s)]) THEN TrimEnd(SubSeq(s, 1, Len(s) - 1)) ELSE s
Trim(s) == TrimEnd(TrimStart(s))

StrItem(s) == [is_str |-> TRUE, s |-> s]
NonStrItem == [is_str |-> FALSE, s |-> <<>>]

\* Item::Value(Value::Array(array)) with array.decor_mut().set_suffix(..)
ArrayEntry(name, strings, suffix) ==
    [name |-> name, is_array |-> TRUE,
     items |-> [i \in 1..Len(strings) |-> StrItem(strings[i])],
     suffix |-> suffix]

EmptyTable == [features |-> "table", entries |-> <<>>]

\* Table::contains_key
ContainsKey(entries, name) == \E i \in 1..Len(entries) : entries[i].name = name

\* Table::get (the key is present)
EntryOf(entries, name) == entries[CHOOSE i \in 1..Len(entries) : entries[i].name = name]

\* Table::insert: an existing key keeps its place and gets the new value, a
\* new key goes to the end
TableInsert(entries, e) ==
    IF ContainsKey(entries, e.name)
    THEN [i \in 1..Len(entries) |-> IF entries[i].name = e.name THEN e ELSE entries[i]]
    ELSE Append(entries, e)

\* Table::remove
RECURSIVE TableRemove(_, _)
TableRemove(entries, name) ==
    IF Len(entries) = 0 THEN <<>>
    ELSE IF entries[1].name = name THEN TableRemove(Tail(entries), name)
    ELSE <<entries[1]>> \o TableRemove(Tail(entries), name)

EmptyFeatures == [n \in {} |-> {}]

Ok(value) == [ok |-> TRUE, err |-> "", what |-> <<>>, value |-> value]
Err(err, what) == [ok |-> FALSE, err |-> err, what |-> what, value |-> <<>>]

\* The first entry, in iteration order, that collect_features rejects:
\* 0 when there is none.
RECURSIVE FirstRejected(_, _)
FirstRejected(entries, i) ==
    IF i > Len(entries) THEN 0
    ELSE IF ~entries[i].is_array THEN i
    ELSE IF \E k \in 1..Len(entries[i].items) : ~entries[i].items[k].is_str THEN i
    ELSE FirstRejected(entries, i + 1)

\* Manifest::collect_features: feature name -> set of dependency strings
collect_features(doc) ==
    IF doc.features = "absent" THEN Ok(EmptyFeatures)
    ELSE IF doc.features # "table"
    THEN Err("MalformedManifest", <<"features is not a table">>)
    ELSE LET bad == FirstRejected(doc.entries, 1)
         IN  IF bad # 0
             THEN IF ~doc.entries[bad].is_array
                  THEN Err("MalformedManifest",
                           <<"feature is not a array", doc.entries[bad].name>>)
                  ELSE Err("MalformedManifest",
                           <<"feature has non string item as dependency",
                             doc.entries[bad].name>>)
             ELSE Ok([n \in {doc.entries[i].name : i \in 1..Len(doc.entries)} |->
                        LET e == EntryOf(doc.entries, n)
                        IN  {e.items[k].s : k \in 1..Len(e.items)}])

\* the test without trim()
IsGeneratedUntrimmed(e) == e.suffix = AUTO_GENERATE_COMMENT

\* the test of clear_generated_features on one array
IsGenerated(e) == Trim(e.suffix) = Trim(AUTO_GENERATE_COMMENT)

RECURSIVE RemoveAll(_, _)
RemoveAll(entries, names) ==
    IF Len(names) = 0 THEN entries
    ELSE RemoveAll(TableRemove(entries, names[1]), Tail(names))

\* Manifest::clear_generated_features: the names are collected first (an
\* entry that is no array ends the call with an error), then removed.
clear_generated_features(doc) ==
    IF doc.features = "absent" THEN Ok(doc)
    ELSE IF doc.features # "table"
    THEN Err("MalformedManifest", <<"features is not a table">>)
    ELSE IF \E i \in 1..Len(doc.entries) : ~doc.entries[i].is_array
    THEN LET bad == CHOOSE i \in 1..Len(doc.entries) :
                      /\ ~doc.entries[i].is_array
                      /\ \A j \in 1..(i - 1) : doc.entries[j].is_array
         IN  Err("MalformedManifest",
                 <<"value of feature is not a array", doc.entries[bad].name>>)
    ELSE LET feature_names ==
               SelectSeq([i \in 1..Len(doc.entries) |-> doc.entries[i]], IsGenerated)
         IN  Ok([doc EXCEPT !.entries =
                   RemoveAll(doc.entries,
                             [i \in 1..Len(feature_names) |-> feature_names[i].name])])

\* Manifest::new without the insertion of an empty features table
ManifestNewWithoutTable(parsed) ==
    LET collected == collect_features(parsed)
        cleared == clear_generated_features(parsed)
    IN  IF ~collected.ok THEN collected
        ELSE IF ~cleared.ok THEN cleared
        ELSE Ok([original_features |-> collected.value, document |-> cleared.value])

\* Manifest::new removing the generated entries before it collects the
\* features
ManifestNewClearingFirst(parsed) ==
    LET with_table == IF parsed.features = "absent" THEN EmptyTable ELSE parsed
        cleared == clear_generated_features(with_table)
        collected == IF cleared.ok THEN collect_features(cleared.value) ELSE cleared
    IN  IF ~cleared.ok THEN cleared
        ELSE IF ~collected.ok THEN collected
        ELSE Ok([original_features |-> collected.value, document |-> cleared.value])

\* Manifest::new after the file has been read and parsed: the result, and
\* the Manifest (original_features, document) when the result is Ok
ManifestNew(parsed) ==
    LET collected == collect_features(parsed)
        with_table == IF parsed.features = "absent" THEN EmptyTable ELSE parsed
        cleared == clear_generated_features(with_table)
    IN  IF ~collected.ok THEN collected
        ELSE IF ~cleared.ok THEN cleared
        ELSE Ok([original_features |-> collected.value, document |-> cleared.value])

(***************************************************************************)
(* Feature descriptors (impl ToFeatureName), dependency setters and the    *)
(* environment.                                                            *)
(***************************************************************************)
Descriptors == {"AX", "ManualAX"}

\* ToFeatureName::to_feature_name of the descriptors: "a-x" and "__a-x"
to_feature_name(d) ==
    CASE d = "AX" -> <<"a", "-", "x">>
      [] d = "ManualAX" -> <<"_", "_", "a", "-", "x">>

FeatureNames == {to_feature_name(d) : d \in Descriptors}

\* The dependency setters handed to add_features. Each makes a fixed list of
\* helper calls and ignores their results.
DependencySetters == {"nothing", "several", "failing", "panicking"}

AddCall(s) == [op |-> "add_dependency", arg |-> s, optional |-> FALSE]
PropagateCall(c, o) == [op |-> "propagate_to_crate", arg |-> c, optional |-> o]

SetterCalls(setter) ==
    CASE setter = "nothing" -> <<>>
      [] setter = "several" ->
           <<AddCall(<<"f">>), AddCall(<<"a", "/", "f">>), AddCall(<<"a", "/", "/", "f">>),
             PropagateCall(<<"a">>, TRUE), PropagateCall(<<"a">>, FALSE), AddCall(<<"f">>)>>
      [] setter = "failing" ->
           <<AddCall(<<"a", "/", "a", "/", "f">>), AddCall(<<"/", "/">>)>>
      [] setter = "panicking" -> <<AddCall(<<"f">>), AddCall(<<"?", "/", "f">>)>>

\* dependency_setter(&feature, &mut propagator): the calls in order; a call
\* that panics unwinds through the setter
RECURSIVE RunCalls(_, _, _)
RunCalls(calls, self0, edges) ==
    IF Len(calls) = 0 THEN [panic |-> FALSE, edges |-> edges]
    ELSE LET c == calls[1]
             r == IF c.op = "add_dependency"
                  THEN add_dependency(edges, c.arg)
                  ELSE propagate_to_crate(edges, self0, c.arg, c.optional)
         IN  IF r.res = "panic"
             THEN [panic |-> TRUE, edges |-> r.edges]
             ELSE RunCalls(Tail(calls), self0, r.edges)

\* str::replace(from, to) on characters
Replace(s, from, to) == [i \in 1..Len(s) |-> IF s[i] = from THEN to ELSE s[i]]

UpperChar(c) ==
    CASE c = "a" -> "A"
      [] c = "f" -> "F"
      [] c = "x" -> "X"
      [] OTHER -> c

\* str::to_uppercase
to_uppercase(s) == [i \in 1..Len(s) |-> UpperChar(s[i])]

\* format!("CARGO_FEATURE_{}", feature_name.replace('-', "_").to_uppercase())
FeatureEnvVar(feature_name) ==
    <<"CARGO_FEATURE_">> \o to_uppercase(Replace(feature_name, "-", "_"))

\* Values of environment variables; NotUnicode is a value that is not valid
\* Unicode.
NotUnicode == "<not unicode>"
EnvValues == {"", "1", NotUnicode}

\* std::env::var(key): Ok(value), Err(NotPresent) or Err(NotUnicode)
std_env_var(e, key) ==
    IF key \notin DOMAIN e THEN "Err(NotPresent)"
    ELSE IF e[key] = NotUnicode THEN "Err(NotUnicode)"
    ELSE "Ok"

\* the test of add_features for one feature: std::env::var(..).is_ok()
IsSpecified(e, feature_name) == std_env_var(e, FeatureEnvVar(feature_name)) = "Ok"

\* format!("__{}", feature_name)
ManualDependentFeature(feature_name) == <<"_", "_">> \o feature_name

\* The helper of one feature from its creation to the sorted dependencies:
\* DependencyHelper(&feature_name, Default::default()), the insertion of
\* Simple(manual_dependent_feature) when the table has that key, the
\* dependency setter, then into_string and sort.
FeatureDependencies(feature_name, has_manual, setter) ==
    LET seeded == IF has_manual
                  THEN {Simple(ManualDependentFeature(feature_name))}
                  ELSE {}
        set == RunCalls(SetterCalls(setter), feature_name, seeded)
    IN  [panic |-> set.panic,
         dependencies |-> IF set.panic THEN <<>> ELSE RenderSorted(set.edges)]

\* FeatureDependencies of every feature and setter, computed once
DependenciesTable ==
    [d \in Descriptors |-> [has_manual \in BOOLEAN |-> [setter \in DependencySetters |->
        FeatureDependencies(to_feature_name(d), has_manual, setter)]]]

\* the iteration without the lookup of "__<feature name>"
AddOneFeatureUnlinked(entries, feature, setter) ==
    LET deps == DependenciesTable[feature][FALSE][setter]
    IN  IF deps.panic
        THEN [panic |-> TRUE, entries |-> entries]
        ELSE [panic |-> FALSE,
              entries |-> TableInsert(entries,
                            ArrayEntry(to_feature_name(feature), deps.dependencies,
                                       AUTO_GENERATE_COMMENT))]

\* One iteration of the loop of add_features, up to features.insert.
AddOneFeature(entries, feature, setter) ==
    LET feature_name == to_feature_name(feature)
        has_manual == ContainsKey(entries, ManualDependentFeature(feature_name))
        deps == DependenciesTable[feature][has_manual][setter]
    IN  IF deps.panic
        THEN [panic |-> TRUE, entries |-> entries]
        ELSE [panic |-> FALSE,
              entries |-> TableInsert(entries,
                            ArrayEntry(feature_name, deps.dependencies,
                                       AUTO_GENERATE_COMMENT))]

\* Manifest::add_features: the loop over feature_names. Returns the entries
\* of the features table, the specified features and whether the call
\* unwound with a panic.
RECURSIVE AddFeaturesLoop(_, _, _, _, _)
AddFeaturesLoop(entries, feature_names, setter, e, specified_features) ==
    IF Len(feature_names) = 0
    THEN [panic |-> FALSE, entries |-> entries, specified |-> specified_features]
    ELSE LET one == AddOneFeature(entries, feature_names[1], setter)
         IN  IF one.panic
             THEN [panic |-> TRUE, entries |-> one.entries, specified |-> specified_features]
             ELSE AddFeaturesLoop(
                    one.entries, Tail(feature_names), setter, e,
                    IF IsSpecified(e, to_feature_name(feature_names[1]))
                    THEN Append(specified_features, feature_names[1])
                    ELSE specified_features)

add_features(entries, feature_names, setter, e) ==
    AddFeaturesLoop(entries, feature_names, setter, e, <<>>)

\* the Result with the error carrying the names in reverse order
MutuallyExclusiveResultReversed(specified) ==
    IF Len(specified) > 1
    THEN Err("MutualExclusiveFeatureError",
             [i \in 1..Len(specified) |->
                to_feature_name(specified[Len(specified) + 1 - i])])
    ELSE Ok(IF Len(specified) = 0 THEN <<>> ELSE <<specified[1]>>)

\* Manifest::add_mutually_exclusive_features: the Result built from the
\* features add_features returned
MutuallyExclusiveResult(specified) ==
    IF Len(specified) > 1
    THEN Err("MutualExclusiveFeatureError",
             [i \in 1..Len(specified) |-> to_feature_name(specified[i])])
    ELSE Ok(IF Len(specified) = 0 THEN <<>> ELSE <<specified[1]>>)

\* check_is_changed comparing the feature names alone
check_is_changed_by_names(doc, original) ==
    LET current_features == collect_features(doc)
    IN  IF ~current_features.ok THEN current_features
        ELSE Ok(DOMAIN current_features.value # DOMAIN original)

\* Manifest::check_is_changed
check_is_changed(doc, original) ==
    LET current_features == collect_features(doc)
    IN  IF ~current_features.ok THEN current_features
        ELSE Ok(current_features.value # original)

\* Manifest::write: whether std::fs::write is called, and the Result
ManifestWrite(doc, original, prevent) ==
    LET changed == check_is_changed(doc, original)
    IN  IF ~changed.ok THEN [written |-> FALSE, result |-> changed]
        ELSE IF changed.value
        THEN [written |-> TRUE,
              result |-> IF prevent THEN Err("ManifestChanged", <<>>) ELSE Ok(TRUE)]
        ELSE [written |-> FALSE, result |-> Ok(FALSE)]

(***************************************************************************)
(* The life cycle of one Manifest in a build script:                       *)
(*   pc = "start"  --New--> "loaded" | "failed"                            *)
(*   "loaded" --AddFeatures / AddMutuallyExclusiveFeatures--> "loaded"     *)
(*                                         | "panicked" (the call unwinds) *)
(*   "loaded" --Write--> "written"                                         *)
(* `last` records the last operation: its name, the descriptors it was     *)
(* given and its Result.                                                   *)
(***************************************************************************)
MaxDescs == 2       \* descriptors handed to one add call
MaxAdds == 2        \* add calls of the first run under RerunSpec

Last(op, descs, res) == [op |-> op, descs |-> descs, res |-> res]
NoLast == Last("none", <<>>, Ok(<<>>))
NoDocument == [features |-> "absent", entries |-> <<>>]
NoHist == [calls |-> <<>>, first |-> NoLast]

\* The values of the entries of the features table of the file at the start:
\* hand-written and generated arrays, and values collect_features rejects.
FileEntryValues ==
    { [is_array |-> TRUE, items |-> <<>>, suffix |-> <<>>],
      [is_array |-> TRUE, items |-> <<StrItem(<<"x">>), StrItem(<<"f">>)>>,
       suffix |-> AUTO_GENERATE_COMMENT \o <<" ", "by hand">>],
      [is_array |-> TRUE,
       items |-> <<StrItem(<<"f">>), StrItem(<<"a", "?", "/", "a", "-", "x">>),
                   StrItem(<<"a", "/", "f">>), StrItem(<<"f">>)>>,
       suffix |-> AUTO_GENERATE_COMMENT],
      [is_array |-> TRUE, items |-> <<>>,
       suffix |-> <<"#", " ", "auto-generated by manifest_feature_gen", " ", " ">>],
      [is_array |-> FALSE, items |-> <<>>, suffix |-> <<>>],
      [is_array |-> TRUE, items |-> <<StrItem(<<"f">>), NonStrItem>>, suffix |-> <<>>],
      [is_array |-> TRUE, items |-> <<NonStrItem>>, suffix |-> AUTO_GENERATE_COMMENT] }

FileEntries ==
    { [name |-> n, is_array |-> v.is_array, items |-> v.items, suffix |-> v.suffix] :
        n \in FeatureNames, v \in FileEntryValues }

\* a TOML table holds a key once
DistinctNames(entries) ==
    \A i \in 1..Len(entries), j \in 1..Len(entries) :
        entries[i].name = entries[j].name => i = j

\* every manifest whose features table, if any, holds these entries
Files ==
    { NoDocument, [features |-> "not_table", entries |-> <<>>] }
    \cup { [features |-> "table", entries |-> es] :
             es \in UNION { {s \in [1..k -> FileEntries] : DistinctNames(s)} :
                            k \in 0..Cardinality(FeatureNames) } }

EnvVarNames == {FeatureEnvVar(n) : n \in FeatureNames}

\* every environment that sets some of the variables to one of the values
EnvsOver(values) == UNION { [names -> values] : names \in SUBSET EnvVarNames }

DescriptorSeqs == UNION { [1..k -> Descriptors] : k \in 0..MaxDescs }

ManifestStart ==
    /\ pc = "start"
    /\ document = NoDocument
    /\ original_features = EmptyFeatures
    /\ prevent_build_when_changed \in BOOLEAN
    /\ last = NoLast
    /\ writes = 0
    /\ hist = NoHist
    /\ adds = 0
    /\ run = 1

EmptyEnv == [n \in {} |-> ""]

\* Spec: every file, no CARGO_FEATURE_ variable set
Init ==
    /\ HelperIdle
    /\ file \in Files
    /\ env = EmptyEnv
    /\ ManifestStart

\* Manifest::new writing the document back once the generated entries are
\* removed
NewWritingBack ==
    /\ pc = "start"
    /\ \E r \in {ManifestNew(file)} :
           /\ pc' = IF r.ok THEN "loaded" ELSE "failed"
           /\ document' = IF r.ok THEN r.value.document ELSE document
           /\ file' = IF r.ok THEN r.value.document ELSE file
           /\ original_features' =
                IF r.ok THEN r.value.original_features ELSE original_features
           /\ last' = Last("new", <<>>, IF r.ok THEN Ok(<<>>) ELSE r)
    /\ UNCHANGED <<env, prevent_build_when_changed, writes, hist, adds, run>>
    /\ UNCHANGED hvars

\* Manifest::new(path, prevent_build_when_changed)
New ==
    /\ pc = "start"
    /\ \E r \in {ManifestNew(file)} :
           /\ pc' = IF r.ok THEN "loaded" ELSE "failed"
           /\ document' = IF r.ok THEN r.value.document ELSE document
           /\ original_features' =
                IF r.ok THEN r.value.original_features ELSE original_features
           /\ last' = Last("new", <<>>, IF r.ok THEN Ok(<<>>) ELSE r)
    /\ UNCHANGED <<file, env, prevent_build_when_changed, writes, hist, adds, run>>
    /\ UNCHANGED hvars

\* The effect of an add call on the Manifest. table.get_mut("features")
\* .unwrap().as_table_mut().unwrap() panics when the item is no table.
AddStep(op, feature_names, setter) ==
    IF document.features # "table"
    THEN /\ pc' = "panicked"
         /\ last' = Last(op, feature_names, Err("panic", <<"unwrap">>))
         /\ UNCHANGED document
    ELSE \E r \in {add_features(document.entries, feature_names, setter, env)} :
             /\ document' = [document EXCEPT !.entries = r.entries]
             /\ pc' = IF r.panic THEN "panicked" ELSE "loaded"
             /\ last' = Last(op, feature_names,
                             IF r.panic THEN Err("panic", <<>>)
                             ELSE IF op = "add_features" THEN Ok(r.specified)
                             ELSE MutuallyExclusiveResult(r.specified))

\* Manifest::add_features(feature_names, dependency_setter)
AddFeatures ==
    /\ pc = "loaded"
    /\ \E feature_names \in DescriptorSeqs, setter \in DependencySetters :
         AddStep("add_features", feature_names, setter)
    /\ UNCHANGED <<file, env, original_features, prevent_build_when_changed,
                   writes, hist, adds, run>>
    /\ UNCHANGED hvars

\* Manifest::add_mutually_exclusive_features(feature_names, dependency_setter)
AddMutuallyExclusiveFeatures ==
    /\ pc = "loaded"
    /\ \E feature_names \in DescriptorSeqs, setter \in DependencySetters :
         AddStep("add_mutually_exclusive_features", feature_names, setter)
    /\ UNCHANGED <<file, env, original_features, prevent_build_when_changed,
                   writes, hist, adds, run>>
    /\ UNCHANGED hvars

\* The effect of Manifest::write(self): std::fs::write(&self.path,
\* self.document.to_string()) puts the document in the file.
WriteStep ==
    \E w \in {ManifestWrite(document, original_features, prevent_build_when_changed)} :
        /\ file' = IF w.written THEN document ELSE file
        /\ writes' = IF w.written THEN writes + 1 ELSE writes
        /\ last' = Last("write", <<>>, w.result)
        /\ pc' = "written"

Write ==
    /\ pc = "loaded"
    /\ WriteStep
    /\ UNCHANGED <<env, document, original_features, prevent_build_when_changed,
                   hist, adds, run>>
    /\ UNCHANGED hvars

Next == New \/ AddFeatures \/ AddMutuallyExclusiveFeatures \/ Write

Spec == Init /\ [][Next]_vars

(***************************************************************************)
(* SelectSpec: the same operations, started from a manifest without        *)
(* features in every environment over the CARGO_FEATURE_ variables of the  *)
(* feature names.                                                          *)
(***************************************************************************)
SelectInit ==
    /\ HelperIdle
    /\ file = NoDocument
    /\ env \in EnvsOver(EnvValues)
    /\ ManifestStart
    /\ ~prevent_build_when_changed

SelectSpec == SelectInit /\ [][Next]_vars

(***************************************************************************)
(* RerunSpec: the build script runs twice on the same path. The first run  *)
(* makes up to MaxAdds add calls, recorded in hist.calls; after its write  *)
(* the second run loads the file as the first left it and makes the same   *)
(* calls (descriptors and setter) in the same order before it writes.      *)
(***************************************************************************)
RecordAdd(op) ==
    /\ pc = "loaded"
    /\ run = 1
    /\ adds < MaxAdds
    /\ \E feature_names \in DescriptorSeqs, setter \in DependencySetters :
         /\ AddStep(op, feature_names, setter)
         /\ hist' = [hist EXCEPT !.calls =
                       Append(@, [descs |-> feature_names, setter |-> setter])]
    /\ adds' = adds + 1
    /\ UNCHANGED <<file, env, original_features, prevent_build_when_changed, writes, run>>
    /\ UNCHANGED hvars

ReplayAdd(op) ==
    /\ pc = "loaded"
    /\ run = 2
    /\ adds < Len(hist.calls)
    /\ AddStep(op, hist.calls[adds + 1].descs, hist.calls[adds + 1].setter)
    /\ adds' = adds + 1
    /\ UNCHANGED <<file, env, original_features, prevent_build_when_changed,
                   writes, hist, run>>
    /\ UNCHANGED hvars

RecordAddFeatures == RecordAdd("add_features")
RecordAddMutuallyExclusiveFeatures == RecordAdd("add_mutually_exclusive_features")
ReplayAddFeatures == ReplayAdd("add_features")
ReplayAddMutuallyExclusiveFeatures == ReplayAdd("add_mutually_exclusive_features")

\* write() of a run: the second run writes after its last recorded call
RerunWrite ==
    /\ run = 1 \/ adds = Len(hist.calls)
    /\ Write

\* The build script is started again after a run that ended in write().
NextRun ==
    /\ pc = "written"
    /\ run = 1
    /\ pc' = "start"
    /\ run' = 2
    /\ adds' = 0
    /\ writes' = 0
    /\ document' = NoDocument
    /\ original_features' = EmptyFeatures
    /\ hist' = [hist EXCEPT !.first = last]
    /\ last' = NoLast
    /\ UNCHANGED <<file, env, prevent_build_when_changed>>
    /\ UNCHANGED hvars

RerunNext ==
    \/ New
    \/ RecordAddFeatures
    \/ RecordAddMutuallyExclusiveFeatures
    \/ ReplayAddFeatures
    \/ ReplayAddMutuallyExclusiveFeatures
    \/ RerunWrite
    \/ NextRun

RerunSpec == Init /\ [][RerunNext]_vars

(***************************************************************************)
(* Claims about DependencyHelper, checked under HelperSpec.                *)
(***************************************************************************)
\* number of occurrences of character c in s
CountChar(s, c) == Cardinality({i \in 1..Len(s) : s[i] = c})

\* plain package and feature names of the dependency grammar
PlainNames == {<<"a">>, <<"f">>}

\* s has exactly one '/', and pkg (its first segment without one trailing
\* '?') and feature (its second segment) are given by these:
PackageSegment(s) ==
    LET seg == SubSeq(s, 1, FirstIndex(s, "/") - 1)
    IN  IF EndsWith(seg, "?") THEN SubSeq(seg, 1, Len(seg) - 1) ELSE seg
FeatureSegment(s) == SubSeq(s, FirstIndex(s, "/") + 1, Len(s))

\* name | pkg/feature | pkg?/feature, with non-empty segments
IsDependencyShape(s) ==
    \/ CountChar(s, "/") = 0 /\ Len(s) > 0
    \/ /\ CountChar(s, "/") = 1
       /\ Len(PackageSegment(s)) > 0
       /\ Len(FeatureSegment(s)) > 0

\* C4 (as claimed): on one helper, add_dependency("p/f") followed by
\* add_dependency("p?/f"), or the two in the other order, makes the second
\* call fail with Conflict; on two different helpers the second call succeeds.
C4_ConflictOnOneHelper ==
    \A p \in PlainNames, f \in PlainNames :
      LET mandatory == p \o <<"/">> \o f
          optional == p \o <<"?", "/">> \o f
      IN  /\ ( /\ hcalls = 2
               /\ hlast.op = "add_dependency"
               /\ hlast.arg = optional
               /\ hlast.before = add_dependency({}, mandatory).edges )
             => hlast.res = "Conflict"
          /\ ( /\ hcalls = 2
               /\ hlast.op = "add_dependency"
               /\ hlast.arg = mandatory
               /\ optional \in HelperInputs
               /\ hlast.before = add_dependency({}, optional).edges )
             => hlast.res = "Conflict"
          /\ ( /\ hcalls = 2
               /\ hlast.op = "add_dependency"
               /\ hlast.arg \in {mandatory, optional}
               /\ hlast.before = {}
               /\ \E h \in HelperIds \ {hlast.helper} :
                    helpers[h] \in {add_dependency({}, mandatory).edges,
                                    add_dependency({}, optional).edges} )
             => hlast.res = "Ok"

\* C5 (as claimed): a successful add_dependency(s) on an empty helper, for s
\* of the shape name, pkg/feature or pkg?/feature, renders as exactly <<s>>.
C5_RenderRoundTrip ==
    ( /\ hlast.op = "add_dependency"
      /\ hlast.before = {}
      /\ hlast.res = "Ok"
      /\ IsDependencyShape(hlast.arg) )
    => RenderSorted(helpers[hlast.helper]) = <<hlast.arg>>

\* C6 (as claimed): add_dependency returns InvalidDependencyFormat for every
\* input with more than one '/' and for every input with exactly one '/'
\* whose package or feature segment is empty.
C6_RejectsEveryOtherShape ==
    ( /\ hlast.op = "add_dependency"
      /\ \/ CountChar(hlast.arg, "/") > 1
         \/ CountChar(hlast.arg, "/") = 1 /\ ~IsDependencyShape(hlast.arg) )
    => hlast.res = "InvalidDependencyFormat"

\* C6 (amended): add_dependency returns InvalidDependencyFormat exactly for
\* the inputs that contain more than one '/'; an input with at most one '/'
\* is never rejected for its format, whatever its segments are.
C6_RejectsExactlyMoreThanOneSlash ==
    hlast.op = "add_dependency"
    => (hlast.res = "InvalidDependencyFormat" <=> CountChar(hlast.arg, "/") > 1)

\* C6 witness: an input with two '/' has been rejected, and an input with one
\* '/' and an empty segment has been accepted before it.
C6_Witness ==
    /\ hlast.op = "add_dependency"
    /\ CountChar(hlast.arg, "/") = 2
    /\ hlast.res = "InvalidDependencyFormat"
    /\ \E f \in PlainNames : hlast.before = {CrateFeature(<<>>, f)}

(***************************************************************************)
(* Claims about the Manifest, checked under Spec, SelectSpec and RerunSpec.*)
(***************************************************************************)
\* the marker text, trimmed
TrimmedMarker == <<"#", " ", "auto-generated by manifest_feature_gen">>

\* an entry of a features table that carries the marker / carries none
Marked(e) == e.is_array /\ Trim(e.suffix) = TrimmedMarker
Unmarked(e) == ~Marked(e)

EntriesOf(doc) == {doc.entries[i] : i \in 1..Len(doc.entries)}
NamesOf(doc) == {doc.entries[i].name : i \in 1..Len(doc.entries)}
StringsOf(e) == {e.items[k].s : k \in 1..Len(e.items)}

\* the Manifest exists and the file is still the file it was loaded from
Loaded == pc \in {"loaded", "panicked"}

\* C1 (as claimed): the second full run over the file the first run left,
\* with the same descriptors and setter, writes nothing and returns
\* Ok(false); so a first run that returned ManifestChanged is followed by a
\* run that does not.
C1_SecondRunChangesNothing ==
    (run = 2 /\ pc = "written")
    => /\ writes = 0
       /\ last.res = Ok(FALSE)

C3_StaleRemoval ==
    (pc = "loaded" /\ last.op = "new")
    => /\ document.features = "table"
       /\ document.entries = SelectSeq(file.entries, Unmarked)
       /\ \A e \in EntriesOf(file) : Marked(e) => e \notin EntriesOf(document)

\* C3 witness: a file with an unmarked entry whose comment only starts with
\* the marker and a marked entry whose comment is the marker in other
\* blanks has been loaded.
C3_Witness ==
    /\ pc = "loaded"
    /\ last.op = "new"
    /\ \E e \in EntriesOf(file) :
         Unmarked(e) /\ Len(e.suffix) > 0 /\ e \in EntriesOf(document)
    /\ \E e \in EntriesOf(file) : Marked(e) /\ e.suffix # AUTO_GENERATE_COMMENT

\* the descriptors add_features counts as selected: those it returns
Selected(descs) ==
    SelectSeq(descs, LAMBDA d : IsSpecified(env, to_feature_name(d)))

C8_AutoLink ==
    Loaded
    => \A n \in FeatureNames :
         ( /\ \E h \in EntriesOf(file) :
                h.name = ManualDependentFeature(n) /\ Unmarked(h)
           /\ \E g \in EntriesOf(document) :
                g.name = n /\ g.suffix = AUTO_GENERATE_COMMENT )
         => ManualDependentFeature(n) \in StringsOf(EntryOf(document.entries, n))

\* C8 witness: "__a-x" is hand-written, "a-x" was generated by a setter that
\* added nothing (or whose calls all failed), and its array is ["__a-x"].
C8_Witness ==
    /\ pc = "loaded"
    /\ last.op = "add_features"
    /\ last.descs = <<"AX">>
    /\ \E h \in EntriesOf(file) :
         h.name = ManualDependentFeature(to_feature_name("AX")) /\ Unmarked(h)
    /\ \E g \in EntriesOf(document) :
         /\ g.name = to_feature_name("AX")
         /\ g.suffix = AUTO_GENERATE_COMMENT
         /\ g.items = <<StrItem(ManualDependentFeature(to_feature_name("AX")))>>

\* C9 (as claimed): add_features returns exactly the descriptors, in input
\* order, whose variable CARGO_FEATURE_<NAME> is present in the environment,
\* whatever its value.
C9_SelectedIffPresent ==
    (pc = "loaded" /\ last.op = "add_features")
    => last.res =
         Ok(SelectSeq(last.descs,
                      LAMBDA d : FeatureEnvVar(to_feature_name(d)) \in DOMAIN env))

\* C10 (as claimed): every entry of the loaded file that carries no marker
\* is in the in-memory table, with its name, array and decor unchanged,
\* after Manifest::new and after every sequence of add calls.
C10_HandWrittenUntouched ==
    (Loaded /\ last.res.err # "MalformedManifest")
    => \A e \in EntriesOf(file) : Unmarked(e) => e \in EntriesOf(document)

(***************************************************************************)
(* Further claims about DependencyHelper, checked under HelperSpec.        *)
(***************************************************************************)
\* the strings of v ascend strictly: sorted, and no string twice
StrictlyAscending(v) == \A i \in 1..(Len(v) - 1) : StrLess(v[i], v[i + 1])

\* C11 (as claimed): whatever calls were made on a helper, the array
\* rendered from it lists its strings in ascending order and no string
\* appears twice.
C11_SortedNoDuplicates ==
    \A h \in HelperIds : StrictlyAscending(RenderSorted(helpers[h]))

\* the edge a request for (crate_name, feature, optional) asks for, and the
\* opposite one
RequestedEdge(crate_name, feature, optional) ==
    IF optional THEN OptionalCrateFeature(crate_name, feature)
    ELSE CrateFeature(crate_name, feature)
OppositeEdge(crate_name, feature, optional) ==
    RequestedEdge(crate_name, feature, ~optional)

\* C13 (as claimed): a successful propagate_to_crate(p, optional) stores the
\* opposite variant of the one requested: a mandatory request stores the
\* edge rendered "p?/feature", an optional one the edge rendered
\* "p/feature".
C13_StoresOppositeVariant ==
    (hlast.op = "propagate_to_crate" /\ hlast.res = "Ok")
    => /\ helpers[hlast.helper] =
            hlast.before \cup {OppositeEdge(hlast.arg, hlast.helper, hlast.optional)}
       /\ \E i \in 1..Cardinality(helpers[hlast.helper]) :
            RenderSorted(helpers[hlast.helper])[i] =
              hlast.arg \o (IF hlast.optional THEN <<"/">> ELSE <<"?", "/">>)
                        \o hlast.helper

\* C13 (amended): a successful propagate_to_crate(p, optional) stores the
\* variant that was requested, and only probes for the opposite one: a
\* mandatory request stores the edge rendered "p/feature", an optional one
\* the edge rendered "p?/feature"; a mandatory add_dependency("p/f") stores
\* CrateFeature(p, f).
C13_StoresRequestedVariant ==
    /\ (hlast.op = "propagate_to_crate" /\ hlast.res = "Ok")
       => /\ OppositeEdge(hlast.arg, hlast.helper, hlast.optional) \notin hlast.before
          /\ helpers[hlast.helper] =
               hlast.before \cup {RequestedEdge(hlast.arg, hlast.helper, hlast.optional)}
          /\ \E i \in 1..Cardinality(helpers[hlast.helper]) :
               RenderSorted(helpers[hlast.helper])[i] =
                 hlast.arg \o (IF hlast.optional THEN <<"?", "/">> ELSE <<"/">>)
                           \o hlast.helper
    /\ ( /\ hlast.op = "add_dependency"
         /\ hlast.res = "Ok"
         /\ CountChar(hlast.arg, "/") = 1
         /\ ~EndsWith(SubSeq(hlast.arg, 1, FirstIndex(hlast.arg, "/") - 1), "?") )
       => helpers[hlast.helper] =
            hlast.before \cup {CrateFeature(SubSeq(hlast.arg, 1, FirstIndex(hlast.arg, "/") - 1),
                                            FeatureSegment(hlast.arg))}

\* C13 witness: a mandatory propagate_to_crate("a") on the helper of "f"
\* succeeded on an empty edge set and left the edge rendered "a/f".
C13_Witness ==
    /\ hlast = [op |-> "propagate_to_crate", helper |-> <<"f">>, arg |-> <<"a">>,
                optional |-> FALSE, res |-> "Ok", before |-> {}]
    /\ RenderSorted(helpers[<<"f">>]) = <<<<"a", "/", "f">>>>

\* every call HelperSpec makes on a helper
HelperCalls ==
    {AddCall(s) : s \in HelperInputs}
    \cup {PropagateCall(c, o) : c \in PropagateCrates, o \in BOOLEAN}

\* the last call, as a call of a dependency setter
LastHelperCall == [op |-> hlast.op, arg |-> hlast.arg, optional |-> hlast.optional]

\* what is rendered after the calls, made in this order on a new helper of
\* the feature self0: nothing when a call unwinds
RenderedAfter(calls, self0) ==
    LET r == RunCalls(calls, self0, {})
    IN  [panic |-> r.panic, array |-> IF r.panic THEN <<>> ELSE RenderSorted(r.edges)]

\* every single call made on a new helper, computed once
FirstCallTable ==
    [self0 \in HelperIds |-> [c \in HelperCalls |-> RunCalls(<<c>>, self0, {})]]

\* the first calls that leave a new helper of self0 with these edges
FirstCallsLeaving(self0, edges) ==
    {c \in HelperCalls : FirstCallTable[self0][c] = [panic |-> FALSE, edges |-> edges]}

C15_EdgeSetInvariant ==
    \A h \in HelperIds : \A d \in helpers[h] :
        d.variant = "CrateFeature"
        => OptionalCrateFeature(d.crate_name, d.feature) \notin helpers[h]

\* C15 witness: a call that asked for the opposite of an edge of the set
\* was refused, and the set holds that edge alone of the two.
C15_Witness ==
    /\ hlast.op = "propagate_to_crate"
    /\ hlast.res = "Conflict"
    /\ OppositeEdge(hlast.arg, hlast.helper, hlast.optional) \in helpers[hlast.helper]
    /\ RequestedEdge(hlast.arg, hlast.helper, hlast.optional) \notin helpers[hlast.helper]

\* C19 (as claimed): add_dependency returns Ok or a DependencyError for
\* every input; it never unwinds.
C19_AddDependencyTotal ==
    hlast.op = "add_dependency" => hlast.res \in {"Ok", "Conflict", "InvalidDependencyFormat"}

\* C20: a helper call that returns Conflict or InvalidDependencyFormat
\* leaves the edge set as it was, so what is rendered from it is what was
\* rendered before the call.
C20_FailedCallChangesNothing ==
    hlast.res \in {"Conflict", "InvalidDependencyFormat"}
    => /\ helpers[hlast.helper] = hlast.before
       /\ RenderSorted(helpers[hlast.helper]) = RenderSorted(hlast.before)

\* C20 witness: a call on a helper that holds an edge returned Conflict.
C20_Witness ==
    /\ hlast.res = "Conflict"
    /\ hlast.before # {}
    /\ helpers[hlast.helper] = hlast.before

(***************************************************************************)
(* Further claims about the Manifest, checked under Spec and SelectSpec.   *)
(***************************************************************************)
\* C12: in one run the file is left alone by Manifest::new and by the add
\* calls, whatever they return; it changes, and std::fs::write is called,
\* in write() alone and at most once, putting the document in the file.
C12_SingleConditionalWrite ==
    [][ (file' # file \/ writes' # writes)
        => /\ pc = "loaded"
           /\ pc' = "written"
           /\ last'.op = "write"
           /\ writes = 0
           /\ writes' = 1
           /\ file' = document ]_vars

\* C12 witness: Manifest::new removed a generated entry from the document,
\* an add call failed (it unwound), and the file still holds the entry and
\* has not been written.
C12_Witness ==
    /\ pc = "panicked"
    /\ writes = 0
    /\ \E e \in EntriesOf(file) : Marked(e) /\ e \notin EntriesOf(document)

\* C16 (as claimed): an add_mutually_exclusive_features call that fails
\* with MutualExclusiveFeatureError leaves the in-memory features table as
\* it was before the call.
C16_NoPartialApplication ==
    [][ ( /\ pc = "loaded"
          /\ last'.op = "add_mutually_exclusive_features"
          /\ last'.res.err = "MutualExclusiveFeatureError" )
        => document' = document ]_vars

\* an entry collect_features accepts
ArrayOfStrings(e) == e.is_array /\ \A k \in 1..Len(e.items) : e.items[k].is_str

\* C17: once Manifest::new has succeeded the document has a features table
\* whose entries are all arrays of strings, so the table lookup of
\* add_features never unwinds, no add call returns an error for a helper's
\* Conflict or InvalidDependencyFormat, and write() never fails with
\* MalformedManifest.
C17_FeaturesTableInvariant ==
    pc \in {"loaded", "panicked", "written"}
    => /\ document.features = "table"
       /\ \A e \in EntriesOf(document) : ArrayOfStrings(e)
       /\ last.res.err = "panic" => last.res.what # <<"unwrap">>
       /\ last.res.err \notin {"Conflict", "InvalidDependencyFormat", "MalformedManifest"}
       /\ (last.op \in {"add_features", "add_mutually_exclusive_features"}
           /\ pc = "loaded") => last.res.ok
       /\ pc = "written" => last.res.err \in {"", "ManifestChanged"}

\* C17 witness: the file had no features table, and an add call whose
\* setter got a Conflict and an InvalidDependencyFormat from the helper
\* returned Ok and left the generated entry in the table.
C17_Witness ==
    /\ pc = "loaded"
    /\ file = NoDocument
    /\ last = Last("add_features", <<"AX">>, Ok(<<>>))
    /\ document.entries =
         <<ArrayEntry(to_feature_name("AX"),
                      <<<<"a", "/", "f">>, <<"a", "?", "/", "a", "-", "x">>, <<"f">>>>,
                      AUTO_GENERATE_COMMENT)>>

\* the positions of the entries of the file that are no arrays of strings
MalformedEntries == {i \in 1..Len(file.entries) : ~ArrayOfStrings(file.entries[i])}

\* C18: when an entry of the file's features table, with the marker or
\* without, is no array of strings, Manifest::new fails with
\* MalformedManifest naming the feature (the first such entry), there is no
\* Manifest and nothing is written; and a load of a features table fails
\* this way for no other reason.
C18_MalformedRejectedAtLoad ==
    (pc # "start" /\ file.features = "table")
    => IF MalformedEntries # {}
       THEN /\ pc = "failed"
            /\ last.op = "new"
            /\ last.res.err = "MalformedManifest"
            /\ Len(last.res.what) = 2
            /\ \E i \in MalformedEntries :
                 /\ \A j \in MalformedEntries : i <= j
                 /\ last.res.what[2] = file.entries[i].name
            /\ document = NoDocument
            /\ original_features = EmptyFeatures
            /\ writes = 0
       ELSE pc # "failed"

\* C18 witness: the only malformed entry of the file carries the marker
\* (stale-entry removal would have dropped it), and the load failed naming
\* it.
C18_Witness ==
    /\ pc = "failed"
    /\ file.features = "table"
    /\ Len(file.entries) = 2
    /\ MalformedEntries = {2}
    /\ Marked(file.entries[2])
    /\ last.res.err = "MalformedManifest"
    /\ last.res.what[2] = file.entries[2].name

====
